---- MODULE Spec2Model ----
(***************************************************************************)
(* payload-gatekeeper: the role synchronization engine (syncSystemRoles)   *)
(* running in several processes against one roles store, and the           *)
(* permission matcher (hasPermission, canAssignRole), the role resolver     *)
(* (checkPermission) behind the access functions of a collection           *)
(* (createAccessWrapper, createCollectionAccess), the validate function    *)
(* of the role field (createRoleValidation), and the roles collection:     *)
(* its beforeChange hook, its delete access and its beforeDelete hook.     *)
(*                                                                         *)
(* A string is a tuple of one-character strings, <<"a", ".", "*">> being   *)
(* 'a.*'.  A JavaScript boolean-or-undefined is one of "true", "false",    *)
(* "undefined"; an undefined array is the value Undefined.                 *)
(***************************************************************************)
EXTENDS Integers, Sequences, FiniteSets, TLC

\* ------------------------------------------------------------------ bounds
MaxStarts == 2
MaxFaults == 1
MaxLen == 3
MaxGrants == 2
MaxTargetPermissions == 2

\* ----------------------------------------------------------------- strings
Alphabet == {"a", ".", "*"}

\* UTF-16 code units of the characters, the order Array.prototype.sort uses.
CharCode == [c \in Alphabet |-> CASE c = "*" -> 42 [] c = "." -> 46 [] OTHER -> 97]

Undefined == << <<"undefined">> >>

Truthy(b) == b = "true"

RECURSIVE StrLess(_, _)
StrLess(s, t) ==
  IF s = <<>> THEN t # <<>>
  ELSE IF t = <<>> THEN FALSE
  ELSE IF s[1] = t[1] THEN StrLess(Tail(s), Tail(t))
  ELSE CharCode[s[1]] < CharCode[t[1]]

RECURSIVE InsertSorted(_, _)
InsertSorted(x, sorted) ==
  IF sorted = <<>> THEN <<x>>
  ELSE IF StrLess(x, sorted[1]) THEN <<x>> \o sorted
  ELSE <<sorted[1]>> \o InsertSorted(x, Tail(sorted))

\* Array.prototype.sort() without a comparator: ascending by code units.
RECURSIVE sort(_)
sort(arr) ==
  IF arr = <<>> THEN <<>>
  ELSE InsertSorted(arr[Len(arr)], sort(SubSeq(arr, 1, Len(arr) - 1)))

\* --------------------------------------------------------------- sync data
\* generateRoleHash: the digest of JSON.stringify({permissions: sorted,
\* visibleFor: sorted or []}).  The 16 hex digits of the SHA-256 are
\* represented by the serialized data they are computed from.
generateRoleHashUnsorted(permissions, visibleFor) ==
  [permissions |-> permissions,
   visibleFor  |-> IF visibleFor = Undefined THEN <<>> ELSE visibleFor]

generateRoleHash(permissions, visibleFor) ==
  [permissions |-> sort(permissions),
   visibleFor  |-> IF visibleFor = Undefined THEN <<>> ELSE sort(visibleFor)]

\* The permissions.sort() and visibleFor.sort() of generateRoleHash sort the
\* arrays of the definition in place.
SortedInPlace(def) ==
  [def EXCEPT !.permissions = sort(def.permissions),
              !.visibleFor  = IF def.visibleFor = Undefined THEN Undefined
                              ELSE sort(def.visibleFor)]

pRead   == <<"a", ".", "a">>
pAll    == <<"a", ".", "*">>
pOther  == <<"a", "a", ".", "a">>
slugA   == <<"a">>

EditorV1 == [name |-> "editor", label |-> "Editor", description |-> "undefined",
             permissions |-> <<pRead, pAll>>,
             visibleFor |-> Undefined, protected |-> "undefined", active |-> "undefined"]
EditorV2 == [name |-> "editor", label |-> "Editor", description |-> "edits",
             permissions |-> <<pRead>>,
             visibleFor |-> <<slugA>>, protected |-> "true", active |-> "false"]
ViewerV1 == [name |-> "viewer", label |-> "Viewer", description |-> "undefined",
             permissions |-> <<pOther>>,
             visibleFor |-> Undefined, protected |-> "false", active |-> "true"]

RoleNames == {"editor", "viewer"}

\* The desired-role lists a process may be configured with (systemRoles).
DesiredLists ==
  { <<EditorV2>>, <<EditorV1, ViewerV1>>, <<EditorV1, EditorV2>> }

NoRole == [exists |-> FALSE]

\* Records the store may hold before any sync run: a role created by a
\* person (systemManaged false, configVersion 0), a role written by an
\* earlier sync of an older configuration, and a role written by an earlier
\* sync of EditorV2 whose permissions a person has edited since.
UserRole(n) ==
  [name |-> n, label |-> "Mine", description |-> "by hand",
   permissions |-> <<pOther>>, visibleFor |-> Undefined,
   protected |-> "false", active |-> "true",
   configHash |-> generateRoleHash(<<>>, Undefined),
   configVersion |-> 0, systemManaged |-> "false"]
StaleRole(n) ==
  [name |-> n, label |-> "Old", description |-> "old",
   permissions |-> <<pOther>>, visibleFor |-> Undefined,
   protected |-> "false", active |-> "true",
   configHash |-> generateRoleHash(<<pOther>>, Undefined),
   configVersion |-> 1, systemManaged |-> "true"]
EditedRole(n) ==
  [name |-> n, label |-> "Editor", description |-> "edits",
   permissions |-> <<pOther>>, visibleFor |-> <<slugA>>,
   protected |-> "true", active |-> "false",
   configHash |-> generateRoleHash(<<pRead>>, <<slugA>>),
   configVersion |-> 1, systemManaged |-> "true"]

EmptyResults == [created |-> <<>>, updated |-> <<>>, failed |-> <<>>, skipped |-> <<>>]
NoCalls == [find |-> 0, create |-> 0, findByID |-> 0, update |-> 0, thrown |-> 0]
NoRun == [kind |-> "none"]

StoreError == <<"s">>
UniqueError == <<"u">>

\* Two instances of the application start against the same database.
Runs == {"A", "B"}

VARIABLES
  roles,        \* the roles collection: name -> record or NoRole
  faults,       \* store calls that have thrown so far
  pc,           \* per process: the store call it is about to make
  desired,      \* per process: defaultRoles
  idx,          \* per process: position of defaultRole in defaultRoles
  role,         \* per process: existing.docs[0] of the find
  currentRole,  \* per process: the result of findByID
  results,      \* per process: SyncResults
  calls,        \* per process: store calls issued by the current run
  starts,       \* runs started so far, by all processes
  runNo,        \* per process: number of runs started
  prev,         \* per process: the results of its previous run
  quiet         \* per process: nobody else wrote the store since its first run began

syncVars == <<roles, faults, pc, desired, idx, role, currentRole, results, calls,
              starts, runNo, prev, quiet>>

VARIABLES
  regexCache,          \* the module-level Map of compiled patterns
  call,                \* the exported function that is called
  userPermissions,     \* its argument userPermissions
  requiredPermission,  \* hasPermission's argument requiredPermission
  targetRole,          \* canAssignRole's argument targetRole
  returned             \* what the call returned, NotReturned before it

matchVars == <<regexCache, call, userPermissions, requiredPermission,
               targetRole, returned>>

VARIABLES
  req,            \* the call or request that is being decided
  apc,            \* where the decision stands: the call it is waiting for
  checkArgs,      \* the arguments checkPermission was called with
  granted,        \* what checkPermission resolved to, NotReturned before
  decision,       \* what the access function resolved to, NotReturned before
  lookups,        \* payload.findByID calls of the decision
  lookupOutcome,  \* what payload.findByID did
  originals,      \* calls of the collection's own access function
  originalResult, \* what that function resolved to, NotReturned before
  validated       \* what the role field's validate did, NoValidation before

accessVars == <<req, apc, checkArgs, granted, decision, lookups, lookupOutcome,
                originals, originalResult, validated>>

VARIABLES
  roleDocs,       \* the stored role documents, by id
  skipChecks,     \* options.skipPermissionChecks, evaluated
  actor,          \* who submits the requests: req.user, unpopulated
  lastUpdate,     \* the last request if an update of a role, and how it ended
  lastDelete      \* the last request if a delete of a role, and how it ended

hookVars == <<roleDocs, skipChecks, actor, lastUpdate, lastDelete>>

vars == <<syncVars, matchVars, accessVars, hookVars>>

NotReturned == "pending"
NoTarget == [protected |-> "undefined", permissions |-> Undefined]

\* No call of the permission matcher is under way.
MatchIdle ==
  /\ regexCache = <<>>
  /\ call = "none"
  /\ userPermissions = Undefined
  /\ requiredPermission = <<>>
  /\ targetRole = NoTarget
  /\ returned = NotReturned

NoRequest == [entry |-> "none"]
NoActor == [present |-> FALSE]
NoCheck == [called |-> FALSE]
NoLookup == [kind |-> "none"]
NoUpdate == [kind |-> "none"]
NoDelete == [kind |-> "none"]
NoValidation == [returned |-> FALSE]

\* No access decision is under way.
AccessIdle ==
  /\ req = NoRequest
  /\ apc = "idle"
  /\ checkArgs = NoCheck
  /\ granted = NotReturned
  /\ decision = NotReturned
  /\ lookups = 0
  /\ lookupOutcome = NoLookup
  /\ originals = 0
  /\ originalResult = NotReturned
  /\ validated = NoValidation

\* The roles collection is not being edited.
HookIdle ==
  /\ roleDocs = <<>>
  /\ skipChecks = FALSE
  /\ actor = NoActor
  /\ lastUpdate = NoUpdate
  /\ lastDelete = NoDelete

SyncInit ==
  /\ roles \in [RoleNames -> {NoRole}]
               \cup {[n \in RoleNames |-> IF n = "editor" THEN UserRole(n) ELSE NoRole],
                     [n \in RoleNames |-> IF n = "editor" THEN StaleRole(n) ELSE NoRole],
                     [n \in RoleNames |-> IF n = "editor" THEN EditedRole(n) ELSE NoRole],
                     [n \in RoleNames |-> StaleRole(n)]}
  /\ faults = 0
  /\ pc = [r \in Runs |-> "idle"]
  /\ desired \in [Runs -> DesiredLists]
  /\ idx = [r \in Runs |-> 0]
  /\ role = [r \in Runs |-> NoRole]
  /\ currentRole = [r \in Runs |-> NoRole]
  /\ results = [r \in Runs |-> EmptyResults]
  /\ calls = [r \in Runs |-> NoCalls]
  /\ starts = 0
  /\ runNo = [r \in Runs |-> 0]
  /\ prev = [r \in Runs |-> NoRun]
  /\ quiet = [r \in Runs |-> TRUE]

Init == SyncInit /\ MatchIdle /\ AccessIdle /\ HookIdle

defaultRole(r) == desired[r][idx[r]]

\* End of one iteration of the for loop: the next defaultRole, or return.
NextRolePc(r) == IF idx[r] < Len(desired[r]) THEN "find" ELSE "done"

Failed(r, prefix, message) ==
  Append(results[r].failed,
         [role |-> defaultRole(r).name, error |-> <<prefix, message>>])

Disturb(r) == [q \in Runs |-> IF q = r THEN quiet[q] ELSE FALSE]

\* syncSystemRoles is called: results are initialised and the loop entered.
StartRun(r) ==
  /\ pc[r] \in {"idle", "done"}
  /\ starts < MaxStarts
  /\ starts' = starts + 1
  /\ runNo' = [runNo EXCEPT ![r] = @ + 1]
  /\ prev' = [prev EXCEPT ![r] = IF pc[r] = "done"
                                  THEN [kind |-> "run", results |-> results[r]]
                                  ELSE NoRun]
  /\ results' = [results EXCEPT ![r] = EmptyResults]
  /\ calls' = [calls EXCEPT ![r] = NoCalls]
  /\ idx' = [idx EXCEPT ![r] = 1]
  /\ pc' = [pc EXCEPT ![r] = IF Len(desired[r]) = 0 THEN "done" ELSE "find"]
  /\ role' = [role EXCEPT ![r] = NoRole]
  /\ currentRole' = [currentRole EXCEPT ![r] = NoRole]
  /\ quiet' = [quiet EXCEPT ![r] = IF pc[r] = "idle" THEN TRUE ELSE @]
  /\ UNCHANGED <<roles, faults, desired>>
  /\ UNCHANGED <<matchVars, accessVars, hookVars>>

CatchClauseCreateUnprefixed(site) ==
  CASE site \in {"find", "create"} -> <<>>
    [] OTHER -> <<"Update failed (likely concurrent update): ">>

CatchClauseFindOutsideTry(site) ==
  CASE site = "find"   -> <<"uncaught">>
    [] site = "create" -> <<"Create failed: ">>
    [] OTHER           -> <<"Update failed (likely concurrent update): ">>

\* The catch clause that receives an exception thrown by a store call, given
\* as the prefix it puts before the message: the outer catch for find, the
\* createError catch for create, the updateError catch for findByID and
\* update.
CatchClause(site) ==
  CASE site = "find"   -> <<>>
    [] site = "create" -> <<"Create failed: ">>
    [] OTHER           -> <<"Update failed (likely concurrent update): ">>

Uncaught == <<"uncaught">>

\* The end of one iteration of the for loop (also by continue): role and
\* currentRole go out of scope, the next defaultRole is taken or the results
\* are returned.
Advance(r) ==
  /\ idx' = [idx EXCEPT ![r] = @ + 1]
  /\ pc' = [pc EXCEPT ![r] = NextRolePc(r)]
  /\ role' = [role EXCEPT ![r] = NoRole]
  /\ currentRole' = [currentRole EXCEPT ![r] = NoRole]

\* A store call of process r throws: its catch clause pushes to failed and
\* the loop continues; with no enclosing try the exception leaves the run.
Throw(r, site, message) ==
  /\ faults' = IF message = StoreError THEN faults + 1 ELSE faults
  /\ calls' = [calls EXCEPT ![r] = [@ EXCEPT ![site] = @ + 1, !.thrown = @ + 1]]
  /\ IF CatchClause(site) = Uncaught
     THEN /\ pc' = [pc EXCEPT ![r] = "threw"]
          /\ UNCHANGED <<results, idx, role, currentRole>>
     ELSE /\ results' = [results EXCEPT ![r].failed =
                           Failed(r, CatchClause(site), message)]
          /\ Advance(r)

HashMismatchAlways(existing, newHash) == TRUE

\* line 77: a role that is not system-managed is skipped.
IsSkipped(existing) == ~Truthy(existing.systemManaged)

\* line 83: does the stored role need an update?
HashMismatch(existing, newHash) == existing.configHash # newHash


VersionMismatchSelfCompare(current, snapshot) ==
  current.configVersion # current.configVersion

\* line 92: the findByID result against the find snapshot.
VersionMismatch(current, snapshot) ==
  current.configVersion # snapshot.configVersion

\* lines 41-83: newHash, payload.find by name, and the branch it selects.
Find(r) ==
  /\ pc[r] = "find"
  /\ LET newHash  == generateRoleHash(defaultRole(r).permissions,
                                      defaultRole(r).visibleFor)
         def      == SortedInPlace(defaultRole(r))
         existing == roles[def.name]
     IN
     /\ desired' = [desired EXCEPT ![r][idx[r]] = def]
     /\ \/ /\ faults < MaxFaults
           /\ Throw(r, "find", StoreError)
        \/ /\ calls' = [calls EXCEPT ![r].find = @ + 1]
           /\ UNCHANGED faults
           /\ IF existing = NoRole
              THEN /\ pc' = [pc EXCEPT ![r] = "create"]
                   /\ UNCHANGED <<results, idx, role, currentRole>>
              ELSE IF IsSkipped(existing)
              THEN /\ results' = [results EXCEPT ![r].skipped = Append(@, def.name)]
                   /\ Advance(r)
              ELSE IF HashMismatch(existing, newHash)
              THEN /\ pc' = [pc EXCEPT ![r] = "findByID"]
                   /\ role' = [role EXCEPT ![r] = existing]
                   /\ UNCHANGED <<results, idx, currentRole>>
              ELSE /\ Advance(r)
                   /\ UNCHANGED results
  /\ UNCHANGED <<roles, starts, runNo, prev, quiet>>
  /\ UNCHANGED <<matchVars, accessVars, hookVars>>

\* lines 54-63: the data of payload.create.
CreateDataActiveAsGiven(def) ==
  [name |-> def.name, label |-> def.label, description |-> def.description,
   permissions |-> def.permissions,
   visibleFor |-> def.visibleFor, protected |-> def.protected,
   active |-> def.active,
   configHash |-> generateRoleHash(def.permissions, def.visibleFor),
   configVersion |-> 1, systemManaged |-> "true"]

CreateData(def) ==
  [name |-> def.name, label |-> def.label, description |-> def.description,
   permissions |-> def.permissions,
   visibleFor |-> def.visibleFor, protected |-> def.protected,
   active |-> IF def.active = "undefined" THEN "true" ELSE def.active,
   configHash |-> generateRoleHash(def.permissions, def.visibleFor),
   configVersion |-> 1, systemManaged |-> "true"]

\* lines 53-72: payload.create.  The store rejects a second record of the
\* same name (the name field is unique).
Create(r) ==
  /\ pc[r] = "create"
  /\ LET def == defaultRole(r) IN
     \/ /\ roles[def.name] # NoRole
        /\ Throw(r, "create", UniqueError)
        /\ UNCHANGED <<roles, quiet>>
     \/ /\ roles[def.name] = NoRole
        /\ faults < MaxFaults
        /\ Throw(r, "create", StoreError)
        /\ UNCHANGED <<roles, quiet>>
     \/ /\ roles[def.name] = NoRole
        /\ roles' = [roles EXCEPT ![def.name] = CreateData(def)]
        /\ results' = [results EXCEPT ![r].created = Append(@, def.name)]
        /\ calls' = [calls EXCEPT ![r].create = @ + 1]
        /\ Advance(r)
        /\ quiet' = Disturb(r)
        /\ UNCHANGED faults
  /\ UNCHANGED <<desired, starts, runNo, prev>>
  /\ UNCHANGED <<matchVars, accessVars, hookVars>>

\* lines 87-99: payload.findByID and the version check.
FindByID(r) ==
  /\ pc[r] = "findByID"
  /\ \/ /\ faults < MaxFaults
        /\ Throw(r, "findByID", StoreError)
     \/ /\ calls' = [calls EXCEPT ![r].findByID = @ + 1]
        /\ UNCHANGED faults
        /\ IF VersionMismatch(roles[role[r].name], role[r])
           THEN /\ results' = [results EXCEPT ![r].failed =
                                 Failed(r, <<"Concurrent update detected">>, <<>>)]
                /\ Advance(r)
           ELSE /\ pc' = [pc EXCEPT ![r] = "update"]
                /\ currentRole' = [currentRole EXCEPT ![r] = roles[role[r].name]]
                /\ UNCHANGED <<results, idx, role>>
  /\ UNCHANGED <<roles, desired, starts, runNo, prev, quiet>>
  /\ UNCHANGED <<matchVars, accessVars, hookVars>>

UpdateDataWithoutHash(stored, def, snapshot) ==
  [stored EXCEPT
     !.permissions   = def.permissions,
     !.protected     = IF def.protected = "undefined" THEN snapshot.protected
                       ELSE def.protected,
     !.visibleFor    = def.visibleFor,
     !.configVersion = snapshot.configVersion + 1]

UpdateDataKeepsVisibleFor(stored, def, snapshot) ==
  [stored EXCEPT
     !.permissions   = def.permissions,
     !.protected     = IF def.protected = "undefined" THEN snapshot.protected
                       ELSE def.protected,
     !.configHash    = generateRoleHash(def.permissions, def.visibleFor),
     !.configVersion = snapshot.configVersion + 1]

UpdateDataWholeDefinition(stored, def, snapshot) ==
  [stored EXCEPT
     !.label         = def.label,
     !.active        = IF def.active = "undefined" THEN "true" ELSE def.active,
     !.permissions   = def.permissions,
     !.protected     = IF def.protected = "undefined" THEN snapshot.protected
                       ELSE def.protected,
     !.visibleFor    = def.visibleFor,
     !.configHash    = generateRoleHash(def.permissions, def.visibleFor),
     !.configVersion = snapshot.configVersion + 1]

\* lines 105-111: the data of payload.update, merged into the stored record.
UpdateData(stored, def, snapshot) ==
  [stored EXCEPT
     !.permissions   = def.permissions,
     !.protected     = IF def.protected = "undefined" THEN snapshot.protected
                       ELSE def.protected,
     !.visibleFor    = def.visibleFor,
     !.configHash    = generateRoleHash(def.permissions, def.visibleFor),
     !.configVersion = snapshot.configVersion + 1]

PushUpdatedNever(r, name) == results

\* lines 114-117: if (updateResult) results.updated.push(defaultRole.name)
PushUpdated(r, name) == [results EXCEPT ![r].updated = Append(@, name)]

\* lines 102-124: payload.update by id.
Update(r) ==
  /\ pc[r] = "update"
  /\ LET def    == defaultRole(r)
         stored == roles[role[r].name]
     IN
     \/ /\ faults < MaxFaults
        /\ Throw(r, "update", StoreError)
        /\ UNCHANGED <<roles, quiet>>
     \/ /\ roles' = [roles EXCEPT ![role[r].name] = UpdateData(stored, def, role[r])]
        /\ results' = PushUpdated(r, def.name)
        /\ calls' = [calls EXCEPT ![r].update = @ + 1]
        /\ Advance(r)
        /\ quiet' = Disturb(r)
        /\ UNCHANGED faults
  /\ UNCHANGED <<desired, starts, runNo, prev>>
  /\ UNCHANGED <<matchVars, accessVars, hookVars>>

\* A person with roles.update clears the systemManaged checkbox of a role
\* through the roles collection (the field is hidden, not read-only).
UserForkRole(n) ==
  /\ roles[n] # NoRole
  /\ Truthy(roles[n].systemManaged)
  /\ roles' = [roles EXCEPT ![n].systemManaged = "false"]
  /\ quiet' = [q \in Runs |-> FALSE]
  /\ UNCHANGED <<faults, pc, desired, idx, role, currentRole, results, calls,
                 starts, runNo, prev>>
  /\ UNCHANGED <<matchVars, accessVars, hookVars>>

Next ==
  \/ \E r \in Runs : StartRun(r)
  \/ \E r \in Runs : Find(r)
  \/ \E r \in Runs : Create(r)
  \/ \E r \in Runs : FindByID(r)
  \/ \E r \in Runs : Update(r)
  \/ \E n \in RoleNames : UserForkRole(n)

Spec == Init /\ [][Next]_vars

\* ------------------------------------------------- permission matcher
MAX_REGEX_CACHE_SIZE == 100

Star == <<"*">>

\* Array.prototype.includes and String.prototype.includes of one character.
Includes(s, x) == \E i \in 1 .. Len(s) : s[i] = x

StartsWith(s, prefix) ==
  Len(prefix) <= Len(s) /\ SubSeq(s, 1, Len(prefix)) = prefix

EndsWith(s, suffix) ==
  Len(suffix) <= Len(s) /\ SubSeq(s, Len(s) - Len(suffix) + 1, Len(s)) = suffix

\* String.prototype.indexOf of one character, counted from 0; -1 if absent.
IndexOf(s, c) ==
  IF ~Includes(s, c) THEN -1
  ELSE (CHOOSE i \in 1 .. Len(s) : s[i] = c /\ \A j \in 1 .. (i - 1) : s[j] # c) - 1

EscapeDotsForgotten(pattern) == pattern

\* pattern.replace(/\./g, '\\.'): every dot becomes the escaped dot.
EscapeDots(pattern) ==
  [i \in 1 .. Len(pattern) |-> IF pattern[i] = "." THEN "\\." ELSE pattern[i]]

\* .replace(/\*/g, '.*'): every asterisk becomes the token '.*'.
ConvertStars(tokens) ==
  [i \in 1 .. Len(tokens) |-> IF tokens[i] = "*" THEN ".*" ELSE tokens[i]]

\* new RegExp(`^${regexPattern}$`), as the sequence of its tokens.
CompileRegex(pattern) == ConvertStars(EscapeDots(pattern))

\* One regular-expression token against one character: the escaped dot is
\* the dot, a bare dot is any character, anything else is itself.
TokenMatches(token, c) ==
  CASE token = "\\." -> c = "."
    [] token = "."   -> TRUE
    [] OTHER         -> token = c

\* RegExp.prototype.test of an expression anchored by ^ and $.
RECURSIVE RegexTest(_, _)
RegexTest(regex, str) ==
  IF regex = <<>> THEN str = <<>>
  ELSE IF regex[1] = ".*"
  THEN \E k \in 0 .. Len(str) :
         RegexTest(Tail(regex), SubSeq(str, k + 1, Len(str)))
  ELSE /\ str # <<>>
       /\ TokenMatches(regex[1], str[1])
       /\ RegexTest(Tail(regex), Tail(str))

\* getPermissionRegex: the cached expression, or a newly compiled one.
getPermissionRegex(pattern, cache) ==
  IF pattern \in DOMAIN cache THEN cache[pattern] ELSE CompileRegex(pattern)

\* The regexCache after getPermissionRegex(pattern): a newly compiled
\* expression is stored while the cache holds fewer than the maximum.
CacheAfter(pattern, cache) ==
  IF pattern \in DOMAIN cache \/ Cardinality(DOMAIN cache) >= MAX_REGEX_CACHE_SIZE
  THEN cache
  ELSE [x \in DOMAIN cache \cup {pattern} |->
          IF x = pattern THEN CompileRegex(pattern) ELSE cache[x]]

FastPathPrefixWithoutDot(permission) == SubSeq(permission, 1, Len(permission) - 2)

\* line 63: permission.slice(0, -1), the entry without its asterisk.
FastPathPrefix(permission) == SubSeq(permission, 1, Len(permission) - 1)

\* lines 55-76: the loop over the wildcard entries, from entry i on.
RECURSIVE WildcardLoop(_, _, _, _)
WildcardLoop(perms, required, i, cache) ==
  IF i > Len(perms) THEN [result |-> FALSE, cache |-> cache]
  ELSE LET permission == perms[i] IN
    IF ~Includes(permission, "*")
    THEN WildcardLoop(perms, required, i + 1, cache)
    ELSE IF EndsWith(permission, <<".", "*">>)
            /\ IndexOf(permission, "*") = Len(permission) - 1
    THEN IF StartsWith(required, FastPathPrefix(permission))
         THEN [result |-> TRUE, cache |-> cache]
         ELSE WildcardLoop(perms, required, i + 1, cache)
    ELSE IF RegexTest(getPermissionRegex(permission, cache), required)
         THEN [result |-> TRUE, cache |-> CacheAfter(permission, cache)]
         ELSE WildcardLoop(perms, required, i + 1, CacheAfter(permission, cache))

\* hasPermission with the regexCache it reads and leaves behind.
hasPermissionCall(perms, required, cache) ==
  IF perms = Undefined \/ Len(perms) = 0
  THEN [result |-> FALSE, cache |-> cache]
  ELSE IF Includes(perms, Star) THEN [result |-> TRUE, cache |-> cache]
  ELSE IF Includes(perms, required) THEN [result |-> TRUE, cache |-> cache]
  ELSE WildcardLoop(perms, required, 1, cache)

hasPermission(perms, required) ==
  hasPermissionCall(perms, required, regexCache).result

\* isPermissionCovered with the regexCache it reads and leaves behind.
isPermissionCoveredCall(permission, perms, cache) ==
  IF Len(perms) = 0 THEN [result |-> FALSE, cache |-> cache]
  ELSE hasPermissionCall(perms, permission, cache)

isPermissionCovered(permission, perms) ==
  isPermissionCoveredCall(permission, perms, regexCache).result

RECURSIVE SomeCovered(_, _, _, _)
SomeCovered(targetPermissions, perms, i, cache) ==
  IF i > Len(targetPermissions) THEN [result |-> FALSE, cache |-> cache]
  ELSE LET covered == isPermissionCoveredCall(targetPermissions[i], perms, cache) IN
       IF covered.result THEN [result |-> TRUE, cache |-> covered.cache]
       ELSE SomeCovered(targetPermissions, perms, i + 1, covered.cache)

\* lines 110-112: targetPermissions.every(perm => isPermissionCovered(...)),
\* from entry i on; every stops at the first entry that is not covered.
RECURSIVE EveryCovered(_, _, _, _)
EveryCovered(targetPermissions, perms, i, cache) ==
  IF i > Len(targetPermissions) THEN [result |-> TRUE, cache |-> cache]
  ELSE LET covered == isPermissionCoveredCall(targetPermissions[i], perms, cache) IN
       IF ~covered.result THEN [result |-> FALSE, cache |-> covered.cache]
       ELSE EveryCovered(targetPermissions, perms, i + 1, covered.cache)

ProtectedRefusedNever(perms, target) == FALSE

\* line 104: a protected role needs the literal '*' permission.
ProtectedRefused(perms, target) ==
  Truthy(target.protected) /\ ~Includes(perms, Star)

\* canAssignRole with the regexCache it reads and leaves behind.
canAssignRoleCall(perms, target, cache) ==
  IF ProtectedRefused(perms, target)
  THEN [result |-> FALSE, cache |-> cache]
  ELSE EveryCovered(IF target.permissions = Undefined THEN <<>>
                    ELSE target.permissions, perms, 1, cache)

canAssignRole(perms, target) == canAssignRoleCall(perms, target, regexCache).result

Bool(b) == IF b THEN "true" ELSE "false"

SeqsUpTo(S, n) == UNION {[1 .. k -> S] : k \in 0 .. n}

\* Granted entries hasPermission is called with.
Patterns ==
  { Star, <<"a", ".", "*">>, <<"*", ".", "a">>, <<"a", ".", "a">>,
    <<"a", "a", ".", "a">>, <<"a", "a", ".", "*">>, <<"*", ".", "*">>,
    <<"a", ".", "*", ".", "a">>, <<"a", "*">> }

\* Required permissions: every string of up to MaxLen characters and some
\* longer ones of two and three segments.
Required ==
  SeqsUpTo(Alphabet, MaxLen)
    \cup { <<"a", "a", ".", "a">>, <<"a", ".", "a", "a">>,
           <<"a", ".", "a", ".", "a">>, <<"a", ".", "a", "a", ".", "a">>,
           <<"a", "a", ".", "a", ".", "a">> }

\* Permissions of the roles canAssignRole is called with.
AssignPatterns ==
  { Star, <<"a", ".", "*">>, <<"*", ".", "a">>, <<"a", ".", "a">> }

TargetRoles ==
  [protected : {"true", "false", "undefined"},
   permissions : SeqsUpTo(AssignPatterns, MaxTargetPermissions) \cup {Undefined}]

\* The sync engine is not running.
SyncIdle ==
  /\ SyncInit
  /\ roles = [n \in RoleNames |-> NoRole]
  /\ desired = [r \in Runs |-> <<EditorV2>>]

MatchInit ==
  /\ SyncIdle
  /\ AccessIdle
  /\ HookIdle
  /\ regexCache = <<>>
  /\ returned = NotReturned
  /\ \/ /\ call = "hasPermission"
        /\ userPermissions \in SeqsUpTo(Patterns, MaxGrants) \cup {Undefined}
        /\ requiredPermission \in Required
        /\ targetRole = NoTarget
     \/ /\ call = "canAssignRole"
        /\ userPermissions \in SeqsUpTo(AssignPatterns, MaxGrants)
        /\ requiredPermission = <<>>
        /\ targetRole \in TargetRoles

\* hasPermission(userPermissions, requiredPermission) is called, a first
\* time or again.
CallHasPermission ==
  /\ call = "hasPermission"
  /\ LET r == hasPermissionCall(userPermissions, requiredPermission, regexCache) IN
       /\ returned' = Bool(r.result)
       /\ regexCache' = r.cache
  /\ UNCHANGED <<call, userPermissions, requiredPermission, targetRole>>
  /\ UNCHANGED <<syncVars, accessVars, hookVars>>

\* canAssignRole(userPermissions, targetRole) is called, a first time or
\* again.
CallCanAssignRole ==
  /\ call = "canAssignRole"
  /\ LET r == canAssignRoleCall(userPermissions, targetRole, regexCache) IN
       /\ returned' = Bool(r.result)
       /\ regexCache' = r.cache
  /\ UNCHANGED <<call, userPermissions, requiredPermission, targetRole>>
  /\ UNCHANGED <<syncVars, accessVars, hookVars>>

MatchNext == CallHasPermission \/ CallCanAssignRole

MatchSpec == MatchInit /\ [][MatchNext]_vars

\* ------------------------------------------------------- role resolver
\* A JavaScript value that is an identifier or absent: its type and, for
\* a number or a string, what String() makes of it.
Undef == [t |-> "undefined", v |-> ""]
Null == [t |-> "null", v |-> ""]
Num(v) == [t |-> "number", v |-> v]
Str(v) == [t |-> "string", v |-> v]

\* !!x of an identifier, a record or an absent value.
JsTruthy(x) ==
  CASE x.t \in {"undefined", "null"} -> FALSE
    [] x.t = "number" -> x.v # "0"
    [] x.t = "string" -> x.v # ""
    [] OTHER -> TRUE

\* An entry of a permissions array that is a number, not a string.
NotAString == <<"number">>

read == <<"r", "e", "a", "d">>
create == <<"c", "r", "e", "a", "t", "e">>
update == <<"u", "p", "d", "a", "t", "e">>
delete == <<"d", "e", "l", "e", "t", "e">>
posts == <<"p", "o", "s", "t", "s">>

\* `${collectionSlug}.${operation}`
PermissionOf(collectionSlug, operation) == collectionSlug \o <<".">> \o operation

postsRead == PermissionOf(posts, read)
postsStar == PermissionOf(posts, Star)
starRead == PermissionOf(Star, read)

\* What findByID resolves to when no role has the id and errors are disabled.
NoDoc == [exists |-> FALSE]

\* checkPermission has resolved to result ("true" or "false"), or has
\* thrown ("threw").
Resolved(result, cache) ==
  [await |-> FALSE, result |-> result, cache |-> cache, roleId |-> ""]

\* checkPermission waits for payload.findByID({id: roleId}).
Awaiting(roleId, cache) ==
  [await |-> TRUE, result |-> NotReturned, cache |-> cache, roleId |-> roleId]

IsFirstUserNumberOnly(userId) == JsTruthy(userId) /\ userId = Num("1")

\* line 131: userId && (userId === 1 || userId === '1')
IsFirstUser(userId) ==
  JsTruthy(userId) /\ (userId = Num("1") \/ userId = Str("1"))

\* line 136: !userId && !userRole
IsPublicUser(userRole, userId) == ~JsTruthy(userId) /\ ~JsTruthy(userRole)

PublicPermissionsDefaultAll(options) ==
  IF options.publicRolePermissions = Undefined THEN <<Star>>
  ELSE options.publicRolePermissions

\* line 143: options?.publicRolePermissions || ['*.read']
PublicPermissions(options) ==
  IF options.publicRolePermissions = Undefined THEN <<starRead>>
  ELSE options.publicRolePermissions

\* The first entry of perms that is not a string, 0 if there is none.
FirstNotAString(perms) ==
  IF \E i \in 1 .. Len(perms) : perms[i] = NotAString
  THEN CHOOSE i \in 1 .. Len(perms) :
         perms[i] = NotAString /\ \A j \in 1 .. (i - 1) : perms[j] # NotAString
  ELSE 0

\* hasPermission throws a TypeError when its loop reaches an entry that
\* has no includes method (line 57).
hasPermissionThrows(perms, required, cache) ==
  /\ perms # Undefined
  /\ Len(perms) > 0
  /\ ~Includes(perms, Star)
  /\ ~Includes(perms, required)
  /\ FirstNotAString(perms) > 0
  /\ ~WildcardLoop(SubSeq(perms, 1, FirstNotAString(perms) - 1), required, 1,
                   cache).result

UncaughtMatcherError(cache) == Resolved("threw", cache)

\* lines 187-190: catch (error) { console.error(...); return false }
CaughtMatcherError(cache) == Resolved("false", cache)

\* return hasPermission(perms, permission) inside the try of line 128.
ReturnHasPermission(perms, permission, cache) ==
  IF hasPermissionThrows(perms, permission, cache)
  THEN CaughtMatcherError(
         WildcardLoop(SubSeq(perms, 1, FirstNotAString(perms) - 1), permission,
                      1, cache).cache)
  ELSE LET r == hasPermissionCall(perms, permission, cache) IN
       Resolved(Bool(r.result), r.cache)

InactiveRoleNever(roleRecord) == FALSE

\* line 180: 'active' in role && !role.active
InactiveRole(roleRecord) ==
  roleRecord.active # "absent" /\ roleRecord.active # "true"

\* line 185: 'permissions' in role ? role.permissions : []
PermissionsOfRole(roleRecord) ==
  IF roleRecord.permissions = Undefined THEN <<>> ELSE roleRecord.permissions

\* lines 179-186: the decision once the role is at hand (NoDoc for null).
CheckRole(roleRecord, permission, cache) ==
  IF roleRecord = NoDoc \/ InactiveRole(roleRecord) THEN Resolved("false", cache)
  ELSE ReturnHasPermission(PermissionsOfRole(roleRecord), permission, cache)

\* lines 128-171: checkPermission up to its return or to the findByID it
\* awaits.
checkPermissionStart(userRole, permission, userId, options, cache) ==
  IF IsFirstUser(userId) THEN Resolved("true", cache)
  ELSE IF IsPublicUser(userRole, userId)
  THEN IF Truthy(options.disablePublicRole) THEN Resolved("false", cache)
       ELSE ReturnHasPermission(PublicPermissions(options), permission, cache)
  ELSE IF userRole.t \in {"null", "undefined"} THEN Resolved("false", cache)
  ELSE IF userRole.t = "object" THEN CheckRole(userRole, permission, cache)
  ELSE IF userRole.t \in {"string", "number"} THEN Awaiting(userRole.v, cache)
  ELSE CheckRole(NoDoc, permission, cache)

LookupErrorRethrown(cache) == Resolved("threw", cache)

\* lines 172-176: catch (err) { console.warn(...); return false }
LookupErrorCaught(cache) == Resolved("false", cache)

\* lines 167-186: checkPermission from the outcome of findByID on.
checkPermissionResume(outcome, permission, cache) ==
  IF outcome.kind = "throws" THEN LookupErrorCaught(cache)
  ELSE IF outcome.kind = "null" THEN CheckRole(NoDoc, permission, cache)
  ELSE CheckRole(outcome.doc, permission, cache)

\* What payload.findByID can do for an id: throw (NotFound, or the
\* database failing), resolve to the stored document, or resolve to null
\* when there is none and the store reports no error.
LookupOutcomes(docs, roleId) ==
  {[kind |-> "throws"]}
    \cup (IF roleId \in DOMAIN docs THEN {[kind |-> "doc", doc |-> docs[roleId]]}
          ELSE {[kind |-> "null"]})

\* ---------------------------------------------------- access functions
NoUser == [present |-> FALSE]

\* What the collection's own access function can do: resolve to a boolean
\* or to a query constraint, or throw.
OriginalResults == {"true", "false", "where", "threw"}

\* checkPermission has resolved inside an access function
\* (createAccessWrapper.ts lines 28-35 and 49-57).
AfterCheckOriginalAlways(result, cache) ==
  /\ granted' = result
  /\ regexCache' = cache
  /\ IF req.originalAccess = "function"
     THEN /\ apc' = "originalAccess"
          /\ originals' = originals + 1
          /\ UNCHANGED decision
     ELSE /\ decision' = result
          /\ apc' = "done"
          /\ UNCHANGED originals

AfterCheck(result, cache) ==
  /\ granted' = result
  /\ regexCache' = cache
  /\ IF result # "true"
     THEN /\ decision' = "false"
          /\ apc' = "done"
          /\ UNCHANGED originals
     ELSE IF req.originalAccess = "function"
     THEN /\ apc' = "originalAccess"
          /\ originals' = originals + 1
          /\ UNCHANGED decision
     ELSE /\ decision' = "true"
          /\ apc' = "done"
          /\ UNCHANGED originals

\* The access function calls checkPermission and goes on with what it
\* resolves to, or waits for the findByID that checkPermission awaits.
AwaitCheckPermission(userRole, permission, userId) ==
  LET c == checkPermissionStart(userRole, permission, userId, req.options,
                                regexCache) IN
    /\ checkArgs' = [called |-> TRUE, userRole |-> userRole,
                     permission |-> permission, userId |-> userId,
                     options |-> req.options]
    /\ IF c.await
       THEN /\ apc' = "findByID"
            /\ lookups' = lookups + 1
            /\ regexCache' = c.cache
            /\ UNCHANGED <<granted, decision, originals>>
       ELSE /\ AfterCheck(c.result, c.cache)
            /\ UNCHANGED lookups

\* line 39: if (!args.req.user) return false
Denied ==
  /\ decision' = "false"
  /\ apc' = "done"
  /\ UNCHANGED <<checkArgs, granted, lookups, originals, regexCache>>

PublicReadNever(user, operation) == FALSE

PublicReadAnyOperation(user, operation) == user = NoUser

\* line 18: !args.req.user && operation === 'read'
PublicRead(user, operation) == user = NoUser /\ operation = read

\* line 39: !args.req.user, for the operations line 18 let through
NoUserDenied(user) == user = NoUser

\* createAccessWrapper.ts lines 14-47: the access function up to its first
\* suspension or its return.
AccessWrapper(collectionSlug, operation) ==
  IF PublicRead(req.user, operation)
  THEN AwaitCheckPermission(Null, PermissionOf(collectionSlug, operation), Undef)
  ELSE IF NoUserDenied(req.user) THEN Denied
  ELSE AwaitCheckPermission(req.user.role,
                            PermissionOf(collectionSlug, operation), req.user.id)

AuthCollectionDeniedNever(auth, user) == FALSE

\* part_003 lines 599-602: collection.auth, and if (!args.req.user)
AuthCollectionDenied(auth, user) == auth /\ user = NoUser

\* checkPermission(payload, userRole, permission, userId, options) is called.
CallCheckPermission ==
  /\ req.entry = "checkPermission"
  /\ apc = "start"
  /\ LET c == checkPermissionStart(req.userRole, req.permission, req.userId,
                                   req.options, regexCache) IN
       /\ checkArgs' = [called |-> TRUE, userRole |-> req.userRole,
                        permission |-> req.permission, userId |-> req.userId,
                        options |-> req.options]
       /\ regexCache' = c.cache
       /\ IF c.await
          THEN /\ apc' = "findByID"
               /\ lookups' = lookups + 1
               /\ UNCHANGED granted
          ELSE /\ apc' = "done"
               /\ granted' = c.result
               /\ UNCHANGED lookups
  /\ UNCHANGED <<req, decision, lookupOutcome, originals, originalResult>>
  /\ UNCHANGED <<call, userPermissions, requiredPermission, targetRole, returned>>
  /\ UNCHANGED <<syncVars, hookVars, validated>>

\* The access function createAccessWrapper(collectionSlug, operation,
\* originalAccess, options) returned is called with a request.
CallAccessWrapper ==
  /\ req.entry = "createAccessWrapper"
  /\ apc = "start"
  /\ AccessWrapper(req.collectionSlug, req.operation)
  /\ UNCHANGED <<req, lookupOutcome, originalResult>>
  /\ UNCHANGED <<call, userPermissions, requiredPermission, targetRole, returned>>
  /\ UNCHANGED <<syncVars, hookVars, validated>>

\* The read access function of createCollectionAccess(collection, options)
\* is called with a request.
CallReadAccess ==
  /\ req.entry = "createCollectionAccess"
  /\ apc = "start"
  /\ IF AuthCollectionDenied(req.auth, req.user) THEN Denied
     ELSE AccessWrapper(req.collectionSlug, read)
  /\ UNCHANGED <<req, lookupOutcome, originalResult>>
  /\ UNCHANGED <<call, userPermissions, requiredPermission, targetRole, returned>>
  /\ UNCHANGED <<syncVars, hookVars, validated>>

\* payload.findByID resolves or throws, and checkPermission goes on to its
\* return; an access function that called it goes on from there.
FindByIDReturns ==
  /\ apc = "findByID"
  /\ \E outcome \in LookupOutcomes(roleDocs, checkArgs.userRole.v) :
       LET c == checkPermissionResume(outcome, checkArgs.permission, regexCache) IN
         /\ lookupOutcome' = outcome
         /\ IF req.entry = "checkPermission"
            THEN /\ granted' = c.result
                 /\ regexCache' = c.cache
                 /\ apc' = "done"
                 /\ UNCHANGED <<decision, originals>>
            ELSE AfterCheck(c.result, c.cache)
  /\ UNCHANGED <<req, checkArgs, lookups, originalResult>>
  /\ UNCHANGED <<call, userPermissions, requiredPermission, targetRole, returned>>
  /\ UNCHANGED <<syncVars, hookVars, validated>>

\* The collection's own access function resolves or throws, and the access
\* function returns what it resolved to (lines 32 and 53).
OriginalAccessReturns ==
  /\ apc = "originalAccess"
  /\ \E result \in OriginalResults :
       /\ originalResult' = result
       /\ decision' = result
  /\ apc' = "done"
  /\ UNCHANGED <<req, checkArgs, granted, lookups, lookupOutcome, originals>>
  /\ UNCHANGED <<matchVars, syncVars, hookVars, validated>>

\* enhanceAdminCollection.ts lines 14-29: shouldSkipPermissionCheck
shouldSkipPermissionCheck(skip, isSystemUpdate) == isSystemUpdate \/ skip

NoOperation == <<>>

\* lines 31-33: !operation || operation === 'read'
isReadOperation(operation) == operation = NoOperation \/ operation = read

\* lines 35-37: operation === 'update' && data && !('role' in data)
isRoleFieldUnchanged(operation, roleInData) == operation = update /\ ~roleInData

UserPermissions(perms) == [threw |-> FALSE, permissions |-> perms]

NoRolePermissionsAll(user) == <<Star>>

\* lines 44-46: a user without a role holds no permissions.
NoRolePermissions(user) == <<>>

\* lines 39-56: getUserPermissions, the lookup of a role given by its
\* identifier ending as outcome; userRole?.permissions || []
getUserPermissions(user, outcome) ==
  IF ~JsTruthy(user.role) THEN UserPermissions(NoRolePermissions(user))
  ELSE IF user.role.t = "object"
  THEN UserPermissions(IF user.role.permissions = Undefined THEN <<>>
                       ELSE user.role.permissions)
  ELSE CASE outcome.kind = "throws" -> [threw |-> TRUE, permissions |-> <<>>]
         [] outcome.kind = "doc" -> UserPermissions(outcome.doc.permissions)
         [] OTHER -> UserPermissions(<<>>)

\* line 234: targetRole.label || targetRole.name
LabelOrName(doc) ==
  IF "label" \in DOMAIN doc /\ doc.label # "" THEN doc.label ELSE doc.name

\* The role record as canAssignRole reads it.
RoleForCheck(doc) ==
  [protected |-> Bool(doc.protected), permissions |-> doc.permissions]

Valid == [result |-> "true"]
Invalid(message, roleName) == [result |-> message, role |-> roleName]

\* lines 190-243: the validate function of the role field; what it returns,
\* the findByID calls it makes and the regexCache it leaves behind.
createRoleValidation(request, targetOutcome, userOutcome, cache) ==
  LET early(n) == [validation |-> Valid, lookups |-> n, cache |-> cache] IN
  IF shouldSkipPermissionCheck(request.skip, request.isSystemUpdate) THEN early(0)
  ELSE IF isReadOperation(request.operation) THEN early(0)
  ELSE IF isRoleFieldUnchanged(request.operation, request.roleInData) THEN early(0)
  ELSE IF ~JsTruthy(request.value) THEN early(0)
  ELSE IF targetOutcome.kind = "throws"
  THEN [validation |-> Invalid("Error validating role assignment", ""),
        lookups |-> 1, cache |-> cache]
  ELSE IF targetOutcome.kind # "doc"
  THEN [validation |-> Invalid("Role not found", ""), lookups |-> 1, cache |-> cache]
  ELSE IF request.user = NoUser THEN early(1)
  ELSE LET own == getUserPermissions(request.user, userOutcome)
           n == IF JsTruthy(request.user.role) /\ request.user.role.t # "object"
                THEN 2 ELSE 1
       IN IF own.threw
          THEN [validation |-> Invalid("Error validating role assignment", ""),
                lookups |-> n, cache |-> cache]
          ELSE LET can == canAssignRoleCall(own.permissions,
                                            RoleForCheck(targetOutcome.doc), cache)
               IN [validation |->
                     IF can.result THEN Valid
                     ELSE Invalid("You don't have permission to assign the role",
                                  LabelOrName(targetOutcome.doc)),
                   lookups |-> n, cache |-> can.cache]

\* The lookups validate may make: of the target role, then of the user's
\* own role when the request carries its identifier.
TargetLookups(request, docs) ==
  IF JsTruthy(request.value) THEN LookupOutcomes(docs, request.value.v)
  ELSE {NoLookup}

OwnRoleLookups(request, docs) ==
  IF /\ request.user # NoUser
     /\ JsTruthy(request.user.role)
     /\ request.user.role.t # "object"
  THEN LookupOutcomes(docs, request.user.role.v)
  ELSE {NoLookup}

\* The role field's validate function is called for a write of a user.
CallRoleValidation ==
  /\ req.entry = "validate"
  /\ apc = "start"
  /\ \E targetOutcome \in TargetLookups(req, roleDocs),
        userOutcome \in OwnRoleLookups(req, roleDocs) :
       LET v == createRoleValidation(req, targetOutcome, userOutcome, regexCache) IN
         /\ validated' = [returned |-> TRUE, value |-> v.validation,
                          findByIDs |-> v.lookups,
                          target |-> targetOutcome, own |-> userOutcome]
         /\ regexCache' = v.cache
  /\ apc' = "done"
  /\ UNCHANGED <<req, checkArgs, granted, decision, lookups, lookupOutcome,
                 originals, originalResult>>
  /\ UNCHANGED <<call, userPermissions, requiredPermission, targetRole, returned>>
  /\ UNCHANGED <<syncVars, hookVars>>

\* Values of the active flag of a role record: a boolean, null, undefined,
\* or no such key.
ActiveValues == {"true", "false", "null", "undefined", "absent"}

\* Permission arrays of the roles of a request.
RolePermissionLists ==
  { <<>>, <<postsRead>>, <<Star>>, <<starRead>>, <<postsStar, NotAString>>,
    <<NotAString, postsStar>> }

\* Role records given inline (user.role populated).
InlineRoles ==
  [t : {"object"}, v : {""}, id : {"5"}, active : ActiveValues,
   permissions : RolePermissionLists \cup {Undefined}]

\* The stored roles the lookup reads: an active one, an inactive one and
\* one with id 0.
StoredRoles ==
  [id \in {"0", "5", "6"} |->
     (IF id = "6" THEN [label |-> "Viewer"] ELSE <<>>) @@
     [id |-> id,
      name |-> CASE id = "0" -> "admin" [] id = "5" -> "editor" [] OTHER -> "viewer",
      protected |-> id = "0",
      active |-> IF id = "6" THEN "false" ELSE "true",
      permissions |-> IF id = "5" THEN <<postsRead>> ELSE <<Star>>]]

\* Role references: absent, an identifier, or a resolved record.
RoleRefs ==
  {Undef, Null, Num("0"), Num("5"), Str("5"), Str("6"), Str("9"), Str("")}
    \cup InlineRoles

UserIds ==
  {Undef, Null, Num("0"), Num("1"), Num("2"), Str(""), Str("1"), Str("2")}

\* GatekeeperOptions as far as checkPermission reads them; no options at
\* all reads as both undefined.
PublicOptions ==
  [disablePublicRole : {"true", "false", "undefined"},
   publicRolePermissions : {Undefined, <<>>, <<postsStar>>}]

Operations == {create, read, update, delete}

\* req.user of a request.
Users ==
  {NoUser} \cup [present : {TRUE}, id : {Num("1"), Num("2"), Str("2")},
                 role : RoleRefs]

CheckRequests ==
  [entry : {"checkPermission"}, userRole : RoleRefs, userId : UserIds,
   permission : {postsRead, PermissionOf(posts, create)},
   options : PublicOptions]

WrapperRequests ==
  [entry : {"createAccessWrapper"}, collectionSlug : {posts},
   operation : Operations, user : Users,
   originalAccess : {"none", "function"}, options : PublicOptions]

ReadRequests ==
  [entry : {"createCollectionAccess"}, collectionSlug : {posts},
   auth : BOOLEAN, user : Users,
   originalAccess : {"none", "function"}, options : PublicOptions]

\* A write of a user that reaches the role field's validate function.
ValidateRequests ==
  [entry : {"validate"},
   value : {Undef, Str("0"), Str("5"), Str("6"), Str("9")},
   operation : {NoOperation, read, create, update},
   roleInData : BOOLEAN,
   user : {NoUser}
            \cup [present : {TRUE}, id : {Num("2")},
                  role : {Undef, Str("0"), Str("5"), Str("9")}
                           \cup {r \in InlineRoles :
                                   /\ r.active = "true"
                                   /\ r.permissions \in {Undefined, <<postsRead>>,
                                                          <<Star>>}}],
   skip : BOOLEAN,
   isSystemUpdate : BOOLEAN]

AccessInit ==
  /\ SyncIdle
  /\ MatchIdle
  /\ req \in CheckRequests \cup WrapperRequests \cup ReadRequests
               \cup ValidateRequests
  /\ apc = "start"
  /\ checkArgs = NoCheck
  /\ granted = NotReturned
  /\ decision = NotReturned
  /\ lookups = 0
  /\ lookupOutcome = NoLookup
  /\ originals = 0
  /\ originalResult = NotReturned
  /\ validated = NoValidation
  /\ roleDocs = StoredRoles
  /\ skipChecks = FALSE
  /\ actor = NoActor
  /\ lastUpdate = NoUpdate
  /\ lastDelete = NoDelete

AccessNext ==
  \/ CallCheckPermission
  \/ CallAccessWrapper
  \/ CallReadAccess
  \/ FindByIDReturns
  \/ OriginalAccessReturns
  \/ CallRoleValidation

AccessSpec == AccessInit /\ [][AccessNext]_vars

\* ------------------------------------------------ roles collection hook
\* A field of the submitted data that is not submitted.
NotSubmitted == "undefined"

\* user.role populated with the stored role.
Populated(doc) ==
  [t |-> "object", v |-> "", id |-> doc.id, active |-> doc.active,
   permissions |-> doc.permissions]

\* checkPermission called without options.
NoOptions == [disablePublicRole |-> "undefined", publicRolePermissions |-> Undefined]

\* lines 241-249: isSuperAdmin, the lookup of a role given by its
\* identifier ending as outcome.
IsSuperAdmin(user, outcome, docs) ==
  IF user = NoUser THEN FALSE
  ELSE LET c == checkPermissionStart(user.role, Star, user.id, NoOptions, <<>>) IN
       IF c.await
       THEN checkPermissionResume(outcome, Star, c.cache).result = "true"
       ELSE c.result = "true"

\* The outcomes of the lookup isSuperAdmin may need.
SuperAdminLookups(user, docs) ==
  IF user # NoUser /\ user.role.t \in {"string", "number"} /\ ~IsFirstUser(user.id)
  THEN LookupOutcomes(docs, user.role.v)
  ELSE {NoLookup}

ProtectedRenameNever(data, originalDoc) == FALSE

\* lines 252-254: originalDoc?.protected, and data.name && data.name !==
\* originalDoc.name (operation === 'update' is the caller's condition).
ProtectedRename(data, originalDoc) ==
  /\ originalDoc.protected
  /\ data.name # NotSubmitted
  /\ data.name # originalDoc.name

IsUpdatingOwnRoleNever(user, originalDoc) == FALSE

\* lines 270-275: userRoleId === originalDoc?.id
IsUpdatingOwnRole(user, originalDoc) ==
  /\ user.role.t \in {"object", "string"}
  /\ (IF user.role.t = "object" THEN user.role.id ELSE user.role.v) = originalDoc.id

\* lines 278-279: data.permissions !== undefined && !data.permissions.includes('*')
RemovesStar(data) ==
  data.permissions # Undefined /\ ~Includes(data.permissions, Star)

\* lines 305-314: the submitted fields a protected role does not accept
\* from an actor who is not super admin.
DisallowedFields(data) ==
  {f \in {"protected"} : data[f] # NotSubmitted}

ForceActiveForgotten(data) == data

\* lines 297-299 and 326-327: data.active = true
ForceActive(data) == [data EXCEPT !.active = "true"]

Accepted(data) == [threw |-> "none", data |-> data]
ValidationError(path) == [threw |-> path, data |-> <<>>]

\* lines 227-331: the beforeChange hook of an update; what it returns, or
\* the path of the ValidationError it throws.
beforeChange(data, originalDoc, user, shouldSkip, isSuperAdmin) ==
  IF shouldSkip THEN Accepted(data)
  ELSE IF ProtectedRename(data, originalDoc) THEN ValidationError("name")
  ELSE IF /\ isSuperAdmin
          /\ user # NoUser
          /\ IsUpdatingOwnRole(user, originalDoc)
          /\ RemovesStar(data)
  THEN ValidationError("permissions")
  ELSE IF isSuperAdmin
  THEN Accepted(IF originalDoc.protected THEN ForceActive(data) ELSE data)
  ELSE IF originalDoc.protected
  THEN IF DisallowedFields(data) # {}
       THEN ValidationError(CHOOSE f \in DisallowedFields(data) : TRUE)
       ELSE Accepted(ForceActive(data))
  ELSE Accepted(data)

\* The stored document after an update with data: {...originalDoc, ...data}.
Merged(originalDoc, data) ==
  [id |-> originalDoc.id,
   name |-> IF data.name = NotSubmitted THEN originalDoc.name ELSE data.name,
   protected |-> IF data.protected = NotSubmitted THEN originalDoc.protected
                 ELSE data.protected = "true",
   active |-> IF data.active = NotSubmitted THEN originalDoc.active ELSE data.active,
   permissions |-> IF data.permissions = Undefined THEN originalDoc.permissions
                   ELSE data.permissions]

\* part_003 line 116: name is unique, the store refuses a second role of
\* the same name.
NameTaken(docs, id, name) ==
  \E other \in DOMAIN docs \ {id} : docs[other].name = name

\* The data of an update that submits nothing.
NoData ==
  [name |-> NotSubmitted, permissions |-> Undefined, description |-> NotSubmitted,
   protected |-> NotSubmitted, active |-> NotSubmitted]

\* The data of an update: each field submitted or not, alone and in the
\* combinations the hook tells apart.
UpdateDatas ==
  { [NoData EXCEPT !.permissions = <<postsRead>>],
    [NoData EXCEPT !.permissions = <<Star>>],
    [NoData EXCEPT !.description = "text"],
    [NoData EXCEPT !.name = "owner"],
    [NoData EXCEPT !.name = "admin"],
    [NoData EXCEPT !.name = "owner", !.permissions = <<postsRead>>],
    [NoData EXCEPT !.protected = "false"],
    [NoData EXCEPT !.active = "false"],
    [NoData EXCEPT !.active = "false", !.permissions = <<postsRead>>],
    [NoData EXCEPT !.active = "false", !.protected = "false"] }

\* Who submits updates: nobody (local API), or a user without a role or
\* with a stored role, which the request carries as its identifier or
\* populated.
Actors ==
  {NoActor}
    \cup [present : {TRUE}, id : {Num("2")}, role : {"none", "0", "5"},
          populated : BOOLEAN]

\* req.user of an update the actor submits.
UserOf(who, docs) ==
  IF who = NoActor THEN NoUser
  ELSE [present |-> TRUE, id |-> who.id,
        role |-> IF who.role = "none" THEN Null
                 ELSE IF who.populated /\ who.role \in DOMAIN docs
                 THEN Populated(docs[who.role])
                 ELSE Str(who.role)]

HookInit ==
  /\ SyncIdle
  /\ MatchIdle
  /\ AccessIdle
  /\ roleDocs = [id \in {"0", "5"} |-> StoredRoles[id]]
  /\ skipChecks \in BOOLEAN
  /\ actor \in Actors
  /\ lastUpdate = NoUpdate
  /\ lastDelete = NoDelete

\* payload.update of a role: the beforeChange hook, then the write.
UpdateRole ==
  /\ \E id \in DOMAIN roleDocs, data \in UpdateDatas :
       \E outcome \in SuperAdminLookups(UserOf(actor, roleDocs), roleDocs) :
         LET user == UserOf(actor, roleDocs)
             originalDoc == roleDocs[id]
             isSuperAdmin == IsSuperAdmin(user, outcome, roleDocs)
             hook == beforeChange(data, originalDoc, user, skipChecks, isSuperAdmin)
             doc == Merged(originalDoc, hook.data)
             attempt == [user |-> user, id |-> id, data |-> data,
                         originalDoc |-> originalDoc,
                         isSuperAdmin |-> isSuperAdmin,
                         returned |-> hook.data]
         IN
           IF hook.threw # "none"
           THEN /\ lastUpdate' = [kind |-> "rejected", path |-> hook.threw,
                                  update |-> attempt]
                /\ UNCHANGED roleDocs
           ELSE IF NameTaken(roleDocs, id, doc.name)
           THEN /\ lastUpdate' = [kind |-> "rejected", path |-> "unique",
                                  update |-> attempt]
                /\ UNCHANGED roleDocs
           ELSE /\ lastUpdate' = [kind |-> "accepted", path |-> "none",
                                  update |-> attempt]
                /\ roleDocs' = [roleDocs EXCEPT ![id] = doc]
  /\ lastDelete' = NoDelete
  /\ UNCHANGED <<skipChecks, actor>>
  /\ UNCHANGED <<syncVars, matchVars, accessVars>>

rolesSlug == <<"r", "o", "l", "e", "s">>
rolesDelete == PermissionOf(rolesSlug, delete)

\* The outcomes of the lookup checkPermission(payload, user.role,
\* 'roles.delete') may need.
DeletePermissionLookups(user, docs) ==
  IF user # NoUser /\ user.role.t \in {"string", "number"}
  THEN LookupOutcomes(docs, user.role.v)
  ELSE {NoLookup}

\* part_003 line 74: checkPermission(payload, user.role, 'roles.delete'),
\* its lookup of the role ending as outcome.
HasDeletePermission(user, outcome) ==
  LET c == checkPermissionStart(user.role, rolesDelete, Undef, NoOptions, <<>>) IN
  IF c.await
  THEN checkPermissionResume(outcome, rolesDelete, c.cache).result = "true"
  ELSE c.result = "true"

\* part_003 lines 78-91: if (id), the findByID that resolves, and
\* role?.protected; a findByID that throws is caught and logged.
FoundProtected(idGiven, found) ==
  idGiven /\ found.kind = "doc" /\ found.doc.protected

\* part_003 lines 70-95: access.delete of the roles collection.
rolesDeleteAccess(user, idGiven, outcome, found) ==
  IF user = NoUser \/ ~JsTruthy(user.role) THEN "false"
  ELSE IF ~HasDeletePermission(user, outcome) THEN "false"
  ELSE IF FoundProtected(idGiven, found) THEN "false"
  ELSE "true"

beforeDeleteNeverForbids(found) ==
  IF found.kind = "throws" THEN "threw" ELSE "none"

\* part_003 lines 333-343: the beforeDelete hook; the error it throws
\* ("Forbidden", or "threw" for the error of its findByID), or "none".
beforeDelete(found) ==
  IF found.kind = "throws" THEN "threw"
  ELSE IF found.kind = "doc" /\ found.doc.protected THEN "Forbidden"
  ELSE "none"

\* A delete of a role: access.delete (called with the id, or without it by
\* a delete of many), then the beforeDelete hook, then the removal.
DeleteRole ==
  /\ \E id \in DOMAIN roleDocs, idGiven \in BOOLEAN :
       \E outcome \in DeletePermissionLookups(UserOf(actor, roleDocs), roleDocs),
          accessFound \in LookupOutcomes(roleDocs, id),
          hookFound \in LookupOutcomes(roleDocs, id) :
         LET user == UserOf(actor, roleDocs)
             access == rolesDeleteAccess(user, idGiven, outcome, accessFound)
             hook == IF access = "true" THEN beforeDelete(hookFound) ELSE "not run"
             attempt == [user |-> user, id |-> id, idGiven |-> idGiven,
                         doc |-> roleDocs[id], found |-> accessFound.kind,
                         access |-> access, hook |-> hook]
         IN
           IF access = "true" /\ hook = "none"
           THEN /\ lastDelete' = [kind |-> "deleted", delete |-> attempt]
                /\ roleDocs' = [other \in DOMAIN roleDocs \ {id} |-> roleDocs[other]]
           ELSE /\ lastDelete' = [kind |-> "refused", delete |-> attempt]
                /\ UNCHANGED roleDocs
  /\ lastUpdate' = NoUpdate
  /\ UNCHANGED <<skipChecks, actor>>
  /\ UNCHANGED <<syncVars, matchVars, accessVars>>

HookNext == UpdateRole \/ DeleteRole

HookSpec == HookInit /\ [][HookNext]_vars

\* ------------------------------------------------ role synchronization
\* A step in which process r's payload.update was carried out by the store.
UpdateWritten(r) ==
  /\ pc[r] = "update"
  /\ Len(results'[r].updated) = Len(results[r].updated) + 1

\* A step in which process r's payload.create was carried out by the store.
CreateWritten(r) ==
  /\ pc[r] = "create"
  /\ Len(results'[r].created) = Len(results[r].created) + 1

\* A step in which a store call of process r threw.
CallThrew(r) == calls'[r].thrown = calls[r].thrown + 1

ConcurrentUpdate ==
  <<(<<"Concurrent update detected">>), <<>>>>

DistinctNames(list) ==
  \A i, j \in 1 .. Len(list) : list[i].name = list[j].name => i = j

\* C1: an update is written to a role only when the configVersion the store
\* holds at the moment of the write is the configVersion of the run's find
\* snapshot, under every interleaving with other runs.
C1_UpdateOnlyOverSnapshotVersion ==
  [][\A r \in Runs :
       UpdateWritten(r) =>
         roles[role[r].name].configVersion = role[r].configVersion]_vars

\* C2: a stored role whose systemManaged flag is false is never written by
\* a sync run, also when the flag was cleared while the run was in progress.
C2_UserForkNeverWritten ==
  [][\A r \in Runs :
       UpdateWritten(r) =>
         /\ Truthy(roles[role[r].name].systemManaged)
         /\ roles'[role[r].name].systemManaged = roles[role[r].name].systemManaged]_vars

\* C3: when the findByID re-fetch returns a configVersion other than the
\* one of the find snapshot, the run records 'Concurrent update detected'
\* for the role, writes nothing and goes on to the next role.
C3_ConcurrentUpdateDetected ==
  [][\A r \in Runs :
       ( /\ pc[r] = "findByID"
         /\ pc'[r] # "findByID"
         /\ ~CallThrew(r)
         /\ roles[role[r].name].configVersion # role[r].configVersion )
       =>
       ( /\ results'[r].failed =
              Append(results[r].failed,
                     [role |-> defaultRole(r).name, error |-> ConcurrentUpdate])
         /\ results'[r].updated = results[r].updated
         /\ calls'[r].update = calls[r].update
         /\ roles' = roles
         /\ idx'[r] = idx[r] + 1
         /\ pc'[r] \in {"find", "done"} )]_vars

C3_Witness ==
  \E r \in Runs : \E i \in 1 .. Len(results[r].failed) :
    results[r].failed[i].error = ConcurrentUpdate

\* C4: the stored configVersion of a role never decreases; a create stores
\* 1 and every update the engine writes stores a configVersion strictly
\* greater than the one stored immediately before the write.
C4_VersionOnlyIncreases ==
  [][/\ \A n \in RoleNames :
          (roles[n] # NoRole /\ roles'[n] # NoRole)
            => roles'[n].configVersion >= roles[n].configVersion
     /\ \A r \in Runs :
          /\ CreateWritten(r) => roles'[defaultRole(r).name].configVersion = 1
          /\ UpdateWritten(r) =>
                roles'[role[r].name].configVersion
                  > roles[role[r].name].configVersion]_vars

\* A process has returned from a run that followed another run of the same
\* process over the same desired list, and nobody else wrote the store from
\* the start of the first of the two runs on.
SecondRunDone(r) == pc[r] = "done" /\ runNo[r] >= 2 /\ quiet[r]

NothingWritten(r) ==
  /\ results[r].created = <<>>
  /\ results[r].updated = <<>>
  /\ calls[r].create = 0
  /\ calls[r].update = 0

C6_FailuresAreRecordedAndLoopContinues ==
  [][\A r \in Runs :
       /\ pc'[r] # "threw"
       /\ CallThrew(r) =>
            LET message == IF pc[r] = "create" /\ roles[defaultRole(r).name] # NoRole
                           THEN UniqueError ELSE StoreError
            IN /\ Len(results'[r].failed) = Len(results[r].failed) + 1
               /\ SubSeq(results'[r].failed, 1, Len(results[r].failed))
                    = results[r].failed
               /\ results'[r].failed[Len(results'[r].failed)].role
                    = defaultRole(r).name
               /\ results'[r].failed[Len(results'[r].failed)].error[2] = message
               /\ idx'[r] = idx[r] + 1
               /\ pc'[r] = IF idx[r] < Len(desired[r]) THEN "find" ELSE "done"
       /\ (pc[r] # "done" /\ pc'[r] = "done") =>
            /\ calls'[r].find = Len(desired[r])
            /\ idx'[r] = Len(desired[r]) + 1]_vars

C6_Witness ==
  \E r \in Runs :
    /\ pc[r] = "done"
    /\ Len(desired[r]) = 2
    /\ Len(results[r].failed) = 1
    /\ results[r].failed[1] = [role |-> "editor", error |-> <<(<<>>), StoreError>>]
    /\ results[r].created = <<"viewer">>

\* --------------------------------------------------- permission matcher
TargetPermissions == 
  IF targetRole.permissions = Undefined THEN <<>> ELSE targetRole.permissions

\* C7: when canAssignRole(G, T) returns true, every required permission that
\* T's permission list grants is granted by G as well, also when T's list
\* has wildcard entries.
C7_NoEscalation ==
  (call = "canAssignRole" /\ returned = "true") =>
    \A p \in Required :
      hasPermission(TargetPermissions, p) => hasPermission(userPermissions, p)

C7_Witness ==
  /\ call = "canAssignRole"
  /\ returned = "true"
  /\ ~Includes(userPermissions, Star)
  /\ \E i \in 1 .. Len(TargetPermissions) : Includes(TargetPermissions[i], "*")
  /\ \E p \in Required :
       ~Includes(TargetPermissions, p) /\ hasPermission(TargetPermissions, p)

\* C8: canAssignRole(G, T) is true iff (T is not protected or G contains the
\* literal '*') and hasPermission(G, s) holds for every s of T.permissions,
\* an absent list counting as empty.
C8_CanAssignRoleIff ==
  (call = "canAssignRole" /\ returned # NotReturned) =>
    returned =
      Bool( /\ (targetRole.protected # "true" \/ Includes(userPermissions, Star))
            /\ \A i \in 1 .. Len(TargetPermissions) :
                 hasPermission(userPermissions, TargetPermissions[i]) )

C8_Witness ==
  /\ call = "canAssignRole"
  /\ returned = "false"
  /\ targetRole.protected = "true"
  /\ ~Includes(userPermissions, Star)
  /\ Len(TargetPermissions) = 1
  /\ hasPermission(userPermissions, TargetPermissions[1])

\* String.prototype.split('.'): the dot-delimited segments of a string.
RECURSIVE Split(_)
Split(str) ==
  IF ~Includes(str, ".") THEN <<str>>
  ELSE <<SubSeq(str, 1, IndexOf(str, "."))>>
         \o Split(SubSeq(str, IndexOf(str, ".") + 2, Len(str)))

\* Entry and required string have the same number of segments, and each
\* segment of the entry is '*' or equals the segment at its position.
PositionalMatch(entry, required) ==
  /\ Len(Split(entry)) = Len(Split(required))
  /\ \A i \in 1 .. Len(Split(entry)) :
       Split(entry)[i] = Star \/ Split(entry)[i] = Split(required)[i]

Substrings(str) ==
  {SubSeq(str, i, j) : i \in 1 .. Len(str) + 1, j \in 0 .. Len(str)}

\* The entry with its asterisks replaced, in order, by the given strings.
RECURSIVE Fill(_, _)
Fill(entry, fills) ==
  IF entry = <<>> THEN <<>>
  ELSE IF entry[1] = "*" THEN fills[1] \o Fill(Tail(entry), Tail(fills))
  ELSE <<entry[1]>> \o Fill(Tail(entry), fills)

StarCount(entry) == Cardinality({i \in 1 .. Len(entry) : entry[i] = "*"})

\* The required string is the entry with every asterisk replaced by some run
\* of characters (empty, or with dots in it).
RunMatch(entry, required) ==
  \E fills \in [1 .. StarCount(entry) -> Substrings(required)] :
    Fill(entry, fills) = required

Granted(matches(_, _)) ==
  /\ userPermissions # Undefined
  /\ \/ Includes(userPermissions, Star)
     \/ Includes(userPermissions, requiredPermission)
     \/ \E i \in 1 .. Len(userPermissions) :
          /\ Includes(userPermissions[i], "*")
          /\ matches(userPermissions[i], requiredPermission)

\* C9 (as claimed): hasPermission(G, p) is true iff G contains '*', or p, or
\* an entry with '*' that matches p segment for segment, each '*' segment
\* standing for exactly one segment of p.
C9_PositionalWildcards ==
  (call = "hasPermission" /\ returned # NotReturned) =>
    returned = Bool(Granted(PositionalMatch))

\* C9 (amended): hasPermission(G, p) is true iff G contains '*', or p, or an
\* entry with '*' that equals p once each of its asterisks is replaced by a
\* run of characters, which may be empty and may contain dots.
C9_RunWildcards ==
  (call = "hasPermission" /\ returned # NotReturned) =>
    returned = Bool(Granted(RunMatch))

C9_Witness ==
  /\ call = "hasPermission"
  /\ returned = "true"
  /\ userPermissions = << <<"a", ".", "*">> >>
  /\ requiredPermission = <<"a", ".", "a", ".", "a">>

\* The characters of an entry before its first and after its last asterisk.
LiteralPrefix(entry) == SubSeq(entry, 1, IndexOf(entry, "*"))

RECURSIVE LiteralSuffix(_)
LiteralSuffix(entry) ==
  IF ~Includes(entry, "*") THEN entry
  ELSE LiteralSuffix(SubSeq(entry, IndexOf(entry, "*") + 2, Len(entry)))

\* C10: a wildcard entry grants p only as a match of the whole of p: p
\* begins with what the entry has before its first asterisk and ends with
\* what it has after its last one, so 'c.*' grants only strings that start
\* with 'c.'.
C10_WildcardsAreAnchored ==
  ( /\ call = "hasPermission"
    /\ returned = "true"
    /\ ~Includes(userPermissions, Star)
    /\ ~Includes(userPermissions, requiredPermission) )
  =>
  \E i \in 1 .. Len(userPermissions) :
    LET entry == userPermissions[i] IN
      /\ Includes(entry, "*")
      /\ StartsWith(requiredPermission, LiteralPrefix(entry))
      /\ EndsWith(requiredPermission, LiteralSuffix(entry))
      /\ Len(requiredPermission) >= Len(entry) - StarCount(entry)

C10_Witness ==
  /\ call = "hasPermission"
  /\ returned = "false"
  /\ userPermissions = << <<"a", ".", "*">> >>
  /\ requiredPermission = <<"a", "a", ".", "a">>

\* -------------------------------------- role resolver, access functions
\* checkPermission has been called and has resolved.
CheckResolved == checkArgs # NoCheck /\ granted # NotReturned

\* An argument that is null or undefined.
Absent(x) == x.t \in {"null", "undefined"}

\* The role record the check decides on: the one given inline or the one
\* the lookup returned, NoDoc if there is none.
RoleAtHand ==
  IF checkArgs.userRole.t = "object" THEN checkArgs.userRole
  ELSE IF lookupOutcome.kind = "doc" THEN lookupOutcome.doc
  ELSE NoDoc

\* hasPermission(role.permissions, required) for the role at hand.
RoleGrants ==
  /\ RoleAtHand # NoDoc
  /\ hasPermissionCall(RoleAtHand.permissions, checkArgs.permission, <<>>).result

FirstUser == checkArgs.userId \in {Num("1"), Str("1")}

\* C11 (as claimed): for an actor that is neither the first user nor
\* anonymous (actorId and role reference both absent), checkPermission is
\* true only if a role record is at hand, its active flag is truthy and
\* hasPermission(role.permissions, required) holds; an absent role
\* reference, a role the lookup does not find and a role whose active flag
\* is false, null or not set give false.
C11_DeniedUnlessActiveRoleGrants ==
  ( /\ CheckResolved
    /\ ~FirstUser
    /\ ~(Absent(checkArgs.userId) /\ Absent(checkArgs.userRole)) )
  =>
    /\ granted = "true" =>
         RoleAtHand # NoDoc /\ RoleAtHand.active = "true" /\ RoleGrants
    /\ Absent(checkArgs.userRole) => granted = "false"
    /\ lookupOutcome.kind \in {"throws", "null"} => granted = "false"
    /\ (RoleAtHand # NoDoc /\ RoleAtHand.active # "true") => granted = "false"

\* C11 (amended): for a call that is not the first user's and not taken as
\* public (actorId or role reference is truthy), checkPermission is true
\* only if a role record is at hand, its active flag is truthy or the record
\* has no active key, and hasPermission(role.permissions, required) holds;
\* an absent role reference, a role the lookup does not find and a role
\* whose active key is present with a falsy value give false.
C11_DeniedUnlessRoleNotInactiveGrants ==
  ( /\ CheckResolved
    /\ ~FirstUser
    /\ (JsTruthy(checkArgs.userId) \/ JsTruthy(checkArgs.userRole)) )
  =>
    /\ granted = "true" =>
         RoleAtHand # NoDoc /\ RoleAtHand.active \in {"true", "absent"} /\ RoleGrants
    /\ Absent(checkArgs.userRole) => granted = "false"
    /\ lookupOutcome.kind \in {"throws", "null"} => granted = "false"
    /\ (RoleAtHand # NoDoc /\ RoleAtHand.active \in {"false", "null", "undefined"})
         => granted = "false"

C11_Witness ==
  /\ req.entry = "checkPermission"
  /\ granted = "true"
  /\ checkArgs.userId = Num("2")
  /\ checkArgs.userRole.t = "object"
  /\ checkArgs.userRole.active = "absent"

\* C12 (as claimed): checkPermission is true for every required permission
\* when actorId is 1 or '1', whatever the role reference is and without a
\* lookup; with any other actorId and no role it is false.
C12_OnlyFirstUserBypasses ==
  CheckResolved =>
    /\ FirstUser => (granted = "true" /\ lookups = 0)
    /\ ( /\ checkArgs.userId.t \in {"number", "string"}
         /\ ~FirstUser
         /\ Absent(checkArgs.userRole) ) => granted = "false"

\* C12 (amended): the same, the other actorId being one that is not 0 and
\* not the empty string.
C12_OnlyFirstUserBypassesAmongTruthyIds ==
  CheckResolved =>
    /\ FirstUser => (granted = "true" /\ lookups = 0)
    /\ ( /\ \/ checkArgs.userId.t = "number" /\ checkArgs.userId.v # "0"
            \/ checkArgs.userId.t = "string" /\ checkArgs.userId.v # ""
         /\ ~FirstUser
         /\ Absent(checkArgs.userRole) ) => granted = "false"

C12_Witness ==
  /\ req.entry = "checkPermission"
  /\ checkArgs # NoCheck
  /\ checkArgs.userId = Str("1")
  /\ checkArgs.userRole = Str("9")
  /\ granted = "true"
  /\ lookups = 0

\* C13: with actorId and role reference both absent, checkPermission is
\* false if public access is disabled, and otherwise is
\* hasPermission(P, required), P being the configured public permissions or
\* ['*.read'] when none are configured; it makes no lookup.
C13_PublicCaller ==
  ( /\ CheckResolved
    /\ Absent(checkArgs.userId)
    /\ Absent(checkArgs.userRole) )
  =>
    /\ lookups = 0
    /\ granted =
         IF checkArgs.options.disablePublicRole = "true" THEN "false"
         ELSE Bool(hasPermissionCall(
                IF checkArgs.options.publicRolePermissions = Undefined
                THEN << <<"*", ".", "r", "e", "a", "d">> >>
                ELSE checkArgs.options.publicRolePermissions,
                checkArgs.permission, <<>>).result)

C13_Witness ==
  /\ req.entry = "checkPermission"
  /\ checkArgs # NoCheck
  /\ checkArgs.userId = Undef
  /\ checkArgs.userRole = Null
  /\ checkArgs.options.publicRolePermissions = Undefined
  /\ checkArgs.options.disablePublicRole = "undefined"
  /\ checkArgs.permission = postsRead
  /\ granted = "true"

\* C14: checkPermission resolves to true or false and never raises; it is
\* false when the lookup throws or finds nothing; it calls the lookup at
\* most once, and only for a role reference that is an identifier.
C14_CheckPermissionIsTotal ==
  /\ granted \in {NotReturned, "true", "false"}
  /\ (apc = "done" /\ checkArgs # NoCheck) => granted \in {"true", "false"}
  /\ lookupOutcome.kind \in {"throws", "null"} => granted = "false"
  /\ lookups <= 1
  /\ lookups = 1 => checkArgs.userRole.t \in {"string", "number"}

C14_Witness ==
  /\ req.entry = "checkPermission"
  /\ lookupOutcome.kind = "throws"
  /\ lookups = 1
  /\ granted = "false"

\* The request is decided by an access function createAccessWrapper
\* returned, called directly or by the read access of a collection.
Wrapped == req.entry \in {"createAccessWrapper", "createCollectionAccess"}

\* What the wrapper returns once the permission check has resolved.
DecisionAfterCheck ==
  IF granted # "true" THEN "false"
  ELSE IF req.originalAccess = "function" THEN originalResult
  ELSE "true"

\* C15: the wrapper calls the collection's own access function only after
\* the permission check has granted, and at most once; when the check
\* denies it returns false without calling it; when the check grants it
\* returns that function's result unchanged, or true when there is none.
C15_OriginalAccessOnlyAfterGrant ==
  Wrapped =>
    /\ originals <= 1
    /\ originals = 1 => (granted = "true" /\ req.originalAccess = "function")
    /\ (apc = "done" /\ granted = "false") =>
         (decision = "false" /\ originals = 0)
    /\ (apc = "done" /\ granted = "true") =>
         /\ decision = (IF req.originalAccess = "function" THEN originalResult
                        ELSE "true")
         /\ originals = (IF req.originalAccess = "function" THEN 1 ELSE 0)

C15_Witness ==
  /\ req.entry = "createAccessWrapper"
  /\ apc = "done"
  /\ granted = "true"
  /\ originals = 1
  /\ originalResult = "where"
  /\ decision = "where"

C17_AuthCollectionReadNeedsUser ==
  ( /\ req.entry = "createCollectionAccess"
    /\ req.auth
    /\ apc # "start" )
  =>
    IF req.user = NoUser
    THEN /\ apc = "done"
         /\ decision = "false"
         /\ checkArgs = NoCheck
         /\ originals = 0
    ELSE /\ checkArgs = [called |-> TRUE, userRole |-> req.user.role,
                         permission |-> req.collectionSlug \o <<".">> \o read,
                         userId |-> req.user.id, options |-> req.options]
         /\ apc = "done" => decision = DecisionAfterCheck

C17_Witness ==
  /\ req.entry = "createCollectionAccess"
  /\ req.auth
  /\ req.user = NoUser
  /\ req.originalAccess = "function"
  /\ req.options.disablePublicRole = "undefined"
  /\ req.options.publicRolePermissions = Undefined
  /\ apc = "done"
  /\ decision = "false"

AssignsExistingRole ==
  /\ req.entry = "validate"
  /\ validated # NoValidation
  /\ req.operation \in {create, update}
  /\ req.roleInData
  /\ JsTruthy(req.value)
  /\ validated.target.kind = "doc"
  /\ req.user # NoUser
  /\ ~req.skip
  /\ ~req.isSystemUpdate

\* The permissions of the user's own role: those of the populated role, or
\* of the stored role the identifier names; none without a role.
OwnRolePermissions ==
  IF req.user.role.t = "object"
  THEN (IF req.user.role.permissions = Undefined THEN <<>>
        ELSE req.user.role.permissions)
  ELSE IF req.user.role.t = "string" /\ req.user.role.v \in DOMAIN roleDocs
  THEN roleDocs[req.user.role.v].permissions
  ELSE <<>>

\* canAssignRole(permissions of the user's own role, target role)
MayAssign ==
  canAssignRoleCall(OwnRolePermissions, RoleForCheck(validated.target.doc),
                    <<>>).result

ActorRoleBefore ==
  IF actor.role = lastUpdate.update.id THEN lastUpdate.update.originalDoc
  ELSE IF actor.role \in DOMAIN roleDocs THEN roleDocs[actor.role]
  ELSE [permissions |-> <<>>]

\* The actor of the last update holds '*'.
HoldsStar ==
  /\ actor # NoActor
  /\ actor.role # "none"
  /\ \E i \in 1 .. Len(ActorRoleBefore.permissions) :
       ActorRoleBefore.permissions[i] = <<"*">>

\* The last update is of the role the actor is assigned, by identifier.
OwnRole == actor # NoActor /\ actor.role = lastUpdate.update.id

\* The last update submits a permission list without '*'.
SubmitsListWithoutStar ==
  /\ lastUpdate.update.data.permissions # Undefined
  /\ \A i \in 1 .. Len(lastUpdate.update.data.permissions) :
       lastUpdate.update.data.permissions[i] # <<"*">>

\* The last update submits a name that is not the stored one.
SubmitsOtherName ==
  /\ lastUpdate.update.data.name # NotSubmitted
  /\ lastUpdate.update.data.name # lastUpdate.update.originalDoc.name

\* The last update touches nothing but description and permissions.
OnlyDescriptionOrPermissions ==
  /\ lastUpdate.update.data.name = NotSubmitted
  /\ lastUpdate.update.data.protected = NotSubmitted
  /\ lastUpdate.update.data.active = NotSubmitted

C21_ProtectedNeverDeleted ==
  (lastDelete.kind # "none" /\ lastDelete.delete.doc.protected) =>
    /\ lastDelete.delete.access = "false"
    /\ lastDelete.delete.hook \in {"not run", "Forbidden"}
    /\ lastDelete.kind = "refused"
    /\ lastDelete.delete.id \in DOMAIN roleDocs

\* C21 (amended): a role whose protected flag is true is never deleted:
\* access.delete returns false for every actor whenever it is called with
\* the id and its lookup of the role resolves; when access.delete returns
\* true the beforeDelete hook raises Forbidden, or fails with the error of
\* its own lookup; either way the request is refused and the role stays in
\* the store as it was.
C21_ProtectedNeverDeletedByHook ==
  (lastDelete.kind # "none" /\ lastDelete.delete.doc.protected) =>
    /\ (lastDelete.delete.idGiven /\ lastDelete.delete.found = "doc") =>
         lastDelete.delete.access = "false"
    /\ lastDelete.delete.access = "true" =>
         lastDelete.delete.hook \in {"Forbidden", "threw"}
    /\ lastDelete.kind = "refused"
    /\ lastDelete.delete.id \in DOMAIN roleDocs
    /\ roleDocs[lastDelete.delete.id] = lastDelete.delete.doc

\* A holder of '*' asks to delete a protected role, the lookup of
\* access.delete fails, and the hook raises Forbidden.
C21_Witness ==
  /\ lastDelete.kind = "refused"
  /\ lastDelete.delete.doc.protected
  /\ lastDelete.delete.idGiven
  /\ lastDelete.delete.found = "throws"
  /\ lastDelete.delete.access = "true"
  /\ lastDelete.delete.hook = "Forbidden"

\* C26: with permission checks not skipped, every accepted update of a role
\* whose stored protected flag is true returns data with active = true,
\* whatever active value was submitted and whoever the actor is; the stored
\* role is active after it.
C26_ProtectedStaysActive ==
  ( /\ lastUpdate.kind = "accepted"
    /\ ~skipChecks
    /\ lastUpdate.update.originalDoc.protected )
  =>
    /\ lastUpdate.update.returned.active = "true"
    /\ roleDocs[lastUpdate.update.id].active = "true"

\* An actor who is not super admin submits active = false for a protected
\* role, and the update is accepted.
C26_Witness ==
  /\ lastUpdate.kind = "accepted"
  /\ ~skipChecks
  /\ lastUpdate.update.originalDoc.protected
  /\ ~lastUpdate.update.isSuperAdmin
  /\ lastUpdate.update.data.active = "false"
  /\ lastUpdate.update.returned.active = "true"

\* ------------------------------------- role synchronization: the writes
\* A step in which the store carried out a create or update of process r.
WriteSucceeded(r) ==
  /\ pc[r] \in {"create", "update"}
  /\ calls'[r] # calls[r]
  /\ ~CallThrew(r)

HashOf(def) == generateRoleHash(def.permissions, def.visibleFor)

OthersUntouched(n) == \A other \in RoleNames \ {n} : roles'[other] = roles[other]

\* C22: when the find of a desired definition returns no role, the run
\* issues exactly one create, whose data is the definition with active =
\* (definition's active, or true when unset), configHash = hash of the
\* definition, configVersion = 1 and systemManaged = true; on success the
\* name is recorded in created.
C22_CreateOfMissingRole ==
  [][\A r \in Runs :
       /\ ( /\ pc[r] = "find"
            /\ calls'[r].find = calls[r].find + 1
            /\ ~CallThrew(r)
            /\ roles[defaultRole(r).name] = NoRole )
          => (pc'[r] = "create" /\ idx'[r] = idx[r] /\ calls'[r].create = calls[r].create)
       /\ (pc[r] = "create" /\ pc'[r] # "create") =>
            /\ calls'[r].create = calls[r].create + 1
            /\ idx'[r] = idx[r] + 1
       /\ (pc[r] = "create" /\ WriteSucceeded(r)) =>
            LET def == defaultRole(r) IN
            /\ roles[def.name] = NoRole
            /\ roles'[def.name] =
                 [name |-> def.name, label |-> def.label,
                  description |-> def.description,
                  permissions |-> def.permissions, visibleFor |-> def.visibleFor,
                  protected |-> def.protected,
                  active |-> IF def.active = "undefined" THEN "true" ELSE def.active,
                  configHash |-> HashOf(def), configVersion |-> 1,
                  systemManaged |-> "true"]
            /\ OthersUntouched(def.name)
            /\ results'[r] = [results[r] EXCEPT !.created = Append(@, def.name)]]_vars

\* A run has created the editor role from a definition that leaves active
\* unset.
C22_Witness ==
  \E r \in Runs :
    /\ results[r].created = <<"editor">>
    /\ desired[r][1].active = "undefined"
    /\ roles["editor"] # NoRole
    /\ roles["editor"].active = "true"
    /\ roles["editor"].configVersion = 1
    /\ roles["editor"].permissions = <<pAll, pRead>>

\* C23: the update of an existing system-managed role sets exactly
\* permissions, protected (the definition's value, or the value of the find
\* snapshot when the definition gives none), visibleFor, configHash = hash of
\* the definition and configVersion = snapshot version + 1; it leaves name,
\* label, description, active and systemManaged of the record unchanged, and
\* the name is recorded in updated.
C23_UpdateSetsExactly ==
  [][\A r \in Runs :
       (pc[r] = "update" /\ WriteSucceeded(r)) =>
         LET def == defaultRole(r)
             n == role[r].name
         IN
         /\ Truthy(role[r].systemManaged)
         /\ calls'[r].update = calls[r].update + 1
         /\ roles'[n].permissions = def.permissions
         /\ roles'[n].protected = (IF def.protected = "undefined"
                                   THEN role[r].protected ELSE def.protected)
         /\ roles'[n].visibleFor = def.visibleFor
         /\ roles'[n].configHash = HashOf(def)
         /\ roles'[n].configVersion = role[r].configVersion + 1
         /\ roles'[n].name = roles[n].name
         /\ roles'[n].label = roles[n].label
         /\ roles'[n].description = roles[n].description
         /\ roles'[n].active = roles[n].active
         /\ roles'[n].systemManaged = roles[n].systemManaged
         /\ DOMAIN roles'[n] = DOMAIN roles[n]
         /\ OthersUntouched(n)
         /\ results'[r] = [results[r] EXCEPT !.updated = Append(@, def.name)]]_vars

\* A run has updated the stale editor role to EditorV2, whose label, active
\* and description differ from the stored ones.
C23_Witness ==
  \E r \in Runs :
    /\ results[r].updated = <<"editor">>
    /\ desired[r] = <<EditorV2>>
    /\ roles["editor"] =
         [StaleRole("editor") EXCEPT
            !.permissions = <<pRead>>, !.visibleFor = <<slugA>>,
            !.protected = "true", !.configHash = HashOf(EditorV2),
            !.configVersion = 2]

\* C24: for an existing system-managed role whose stored configHash equals
\* the hash of the desired definition the run issues no findByID and no
\* update, leaves the record unchanged whatever permissions it holds, and
\* adds the name to none of created, updated, skipped and failed; a
\* findByID and an update are issued only when the stored configHash
\* differs.
C24_EqualHashIsLeftAlone ==
  [][\A r \in Runs :
       /\ ( /\ pc[r] = "find"
            /\ calls'[r].find = calls[r].find + 1
            /\ ~CallThrew(r)
            /\ roles[defaultRole(r).name] # NoRole
            /\ Truthy(roles[defaultRole(r).name].systemManaged) )
          =>
            IF roles[defaultRole(r).name].configHash = HashOf(defaultRole(r))
            THEN /\ pc'[r] \in {"find", "done"}
                 /\ idx'[r] = idx[r] + 1
                 /\ calls'[r].findByID = calls[r].findByID
                 /\ calls'[r].update = calls[r].update
                 /\ results'[r] = results[r]
                 /\ roles' = roles
            ELSE pc'[r] = "findByID" /\ idx'[r] = idx[r]
       /\ (pc[r] \in {"findByID", "update"} /\ calls'[r] # calls[r]) =>
            role[r].configHash # HashOf(defaultRole(r))]_vars

\* A run over EditorV2 has returned without a call other than its find,
\* the stored role having EditorV2's hash and other permissions.
C24_Witness ==
  \E r \in Runs :
    /\ pc[r] = "done"
    /\ desired[r] = <<EditorV2>>
    /\ calls[r] = [NoCalls EXCEPT !.find = 1]
    /\ results[r] = EmptyResults
    /\ roles["editor"] = EditedRole("editor")
    /\ roles["editor"].permissions # EditorV2.permissions

\* C25: when the create of a run meets a role of that name which another
\* run has created since the find, the store rejects it, the run records
\* {role: name, error: 'Create failed: <message>'} in failed, does not retry
\* and writes nothing more for that entry, and the store keeps the one
\* record of that name as it is.
C25_LosingCreate ==
  [][\A r \in Runs :
       ( /\ pc[r] = "create"
         /\ calls'[r] # calls[r]
         /\ roles[defaultRole(r).name] # NoRole )
       =>
       ( /\ results'[r] =
              [results[r] EXCEPT
                 !.failed = Append(@, [role |-> defaultRole(r).name,
                                       error |-> <<(<<"Create failed: ">>),
                                                   UniqueError>>])]
         /\ calls'[r].create = calls[r].create + 1
         /\ calls'[r].update = calls[r].update
         /\ roles' = roles
         /\ idx'[r] = idx[r] + 1
         /\ pc'[r] \in {"find", "done"} )]_vars

\* Both runs have returned, one having created the editor role and the
\* other having failed to.
C25_Witness ==
  \E r, q \in Runs :
    /\ pc[r] = "done"
    /\ pc[q] = "done"
    /\ results[q].created = <<"editor">>
    /\ results[r].failed =
         << [role |-> "editor", error |-> <<(<<"Create failed: ">>), UniqueError>>] >>
    /\ results[r].created = <<>>
    /\ results[r].updated = <<>>
    /\ roles["editor"].configVersion = 1

\* Both processes have run once over the same desired list of distinct
\* names and have returned, reporting no failure other than 'Concurrent
\* update detected' and 'Create failed'.
BothReturned ==
  /\ \A r \in Runs : pc[r] = "done" /\ runNo[r] = 1
  /\ desired["A"] = desired["B"]
  /\ DistinctNames(desired["A"])
  /\ \A r \in Runs : \A i \in 1 .. Len(results[r].failed) :
       \/ results[r].failed[i].error = ConcurrentUpdate
       \/ results[r].failed[i].error[1] = <<"Create failed: ">>

\* The stored record of name n is one a sync run wrote, or a person
\* cleared the systemManaged flag of: nobody has edited its permissions.
WrittenBySync(n) ==
  /\ roles[n] # NoRole
  /\ [roles[n] EXCEPT !.systemManaged = "true"] # EditedRole(n)

Reverse(list) ==
  IF list = Undefined THEN Undefined
  ELSE [i \in 1 .. Len(list) |-> list[Len(list) + 1 - i]]

\* C29: every record a sync run writes (create or update) receives a
\* configHash equal to the hash of the permissions and visibleFor the same
\* write stores; the hash of a definition does not depend on the order of
\* the entries of either list; hence the configHash of every system-managed
\* role that only sync runs have written matches its stored permissions and
\* visibleFor.
C29_HashMatchesWhatIsStored ==
  /\ [][\A r \in Runs :
          WriteSucceeded(r) =>
            LET n == defaultRole(r).name IN
              /\ OthersUntouched(n)
              /\ roles'[n].configHash =
                   generateRoleHash(roles'[n].permissions, roles'[n].visibleFor)]_vars
  /\ [](\A list \in DesiredLists : \A i \in 1 .. Len(list) :
          generateRoleHash(Reverse(list[i].permissions), Reverse(list[i].visibleFor))
            = HashOf(list[i]))
  /\ [](\A n \in RoleNames :
          (WrittenBySync(n) /\ Truthy(roles[n].systemManaged)) =>
            roles[n].configHash =
              generateRoleHash(roles[n].permissions, roles[n].visibleFor))

\* A run has created the editor role from EditorV1, whose permissions are
\* configured in another order than the sorted one.
C29_Witness ==
  /\ roles["editor"] # NoRole
  /\ roles["editor"].configVersion = 1
  /\ roles["editor"].permissions = <<pAll, pRead>>
  /\ roles["editor"].configHash = HashOf(EditorV1)
  /\ EditorV1.permissions = <<pRead, pAll>>
  /\ \E r \in Runs : results[r].created = <<"editor">>

\* The entries of the four lists of r's results that name n.
Occurrences(r, n) ==
  Cardinality({i \in 1 .. Len(results[r].created) : results[r].created[i] = n})
    + Cardinality({i \in 1 .. Len(results[r].updated) : results[r].updated[i] = n})
    + Cardinality({i \in 1 .. Len(results[r].skipped) : results[r].skipped[i] = n})
    + Cardinality({i \in 1 .. Len(results[r].failed) : results[r].failed[i].role = n})

Written(res) == Len(res.created) + Len(res.updated)

\* C30: in the results of a run over a desired list of distinct names each
\* name appears in at most one of created, updated, skipped and failed, and
\* the store writes (create or update) that succeeded during the run are as
\* many as the entries of created and updated: the results start empty and
\* every step of the run adds one entry to the two lists exactly when the
\* store carried out its write.
C30_ResultsAccountForWrites ==
  /\ [](\A r \in Runs :
          DistinctNames(desired[r]) =>
            \A n \in RoleNames : Occurrences(r, n) <= 1)
  /\ [][\A r \in Runs :
          IF runNo'[r] # runNo[r] THEN Written(results'[r]) = 0
          ELSE Written(results'[r]) =
                 Written(results[r]) + (IF WriteSucceeded(r) THEN 1 ELSE 0)]_vars

\* A run over two names has returned with one name in created and the
\* other in failed, after one successful write.
C30_Witness ==
  \E r \in Runs :
    /\ pc[r] = "done"
    /\ DistinctNames(desired[r])
    /\ Len(desired[r]) = 2
    /\ Written(results[r]) = 1
    /\ Len(results[r].failed) = 1
    /\ calls[r].create + calls[r].update = 2
====
